---- MODULE Spec2Model ----
(***************************************************************************)
(* ScaBench baseline runner (baseline_runner.py): the File Selector, the   *)
(* File Analyzer with its Finding Normalizer, and the Project Analyzer     *)
(* loop with deduplication and result aggregation.                         *)
(*                                                                         *)
(* Console and progress output (rich) is reporting only and is taken not   *)
(* to raise; the md5 digest is taken to be collision-free.                 *)
(***************************************************************************)
EXTENDS Integers, Sequences, FiniteSets, TLC

(***************************************************************************)
(* Bounds of the model.                                                    *)
(***************************************************************************)
\* longest candidate list in a model response (analyze_file specification)
MaxCands == 2
\* longest file_patterns argument
MaxPatterns == 2

(***************************************************************************)
(* JSON values as json.loads returns them, tagged by Python type.          *)
(***************************************************************************)
JNull == [t |-> "null"]
JNum(n) == [t |-> "num", n |-> n]
JStr(s) == [t |-> "str", s |-> s]
JList(xs) == [t |-> "list", items |-> xs]
JDict(m) == [t |-> "dict", m |-> m]

\* the mapping with no key
EmptyMap == [k \in {} |-> JNull]

\* dict.get(key, default)
Get(m, key, default) == IF key \in DOMAIN m THEN m[key] ELSE default

\* str(v) as an f-string formats it
PyStr(v) ==
  CASE v.t = "str" -> v.s
    [] v.t = "num" -> ToString(v.n)
    [] v.t = "null" -> "None"
    [] v.t = "float" -> v.s
    [] OTHER -> "<repr>"

\* a string json.loads accepts ("\ud800") and str.encode() rejects
LoneSurrogate == "U+D800"

\* str.encode() succeeds on s (UTF-8, strict)
Utf8Encodable(s) == s # LoneSurrogate

(***************************************************************************)
(* Severity and Finding.                                                   *)
(***************************************************************************)
Severity == {"critical", "high", "medium", "low"}

\* hashlib.md5(...).hexdigest()[:16], an injective function of its input
Md5Hex16(s) == <<"md5_16", s>>

\* the f-string of Finding.__post_init__
IdSource(file, title) == file \o ":" \o PyStr(title)

\* __post_init__ raises when the id source cannot be encoded
PostInitRaises(file, title) == ~(Utf8Encodable(file) /\ Utf8Encodable(PyStr(title)))

model_id == "gpt-5-mini"

DefaultConfidence == [t |-> "float", s |-> "0.5"]

\* Finding(...) as analyze_file builds it from one candidate mapping;
\* the id is never passed in, so __post_init__ always derives it
Finding(f_data, file) ==
  LET title == Get(f_data, "title", JStr("Unknown"))
  IN [title |-> title,
      description |-> Get(f_data, "description", JStr("")),
      vulnerability_type |-> Get(f_data, "vulnerability_type", JStr("other")),
      severity |-> Get(f_data, "severity", JStr("medium")),
      confidence |-> Get(f_data, "confidence", DefaultConfidence),
      location |-> Get(f_data, "location", JStr("unknown")),
      file |-> file,
      id |-> Md5Hex16(IdSource(file, title)),
      reported_by_model |-> model_id,
      status |-> "proposed"]

(***************************************************************************)
(* analyze_file.  A reply is what the completion request does: it raises,  *)
(* or it returns a completion with optional usage and a content.           *)
(***************************************************************************)
\* `x or 0` on a token counter
TokenOr0(v) == IF v.t = "num" THEN v.n ELSE 0

\* input_tokens, output_tokens read from completion.usage
UsageTokens(usage) ==
  IF usage.present
  THEN [input_tokens |-> TokenOr0(Get(usage.attrs, "prompt_tokens", JNum(0))),
        output_tokens |-> TokenOr0(Get(usage.attrs, "completion_tokens", JNum(0)))]
  ELSE [input_tokens |-> 0, output_tokens |-> 0]

\* json.loads(result_text) if result_text else {}
\* ok = FALSE: json.loads raised
ParseResult(content) ==
  CASE content.c = "json" -> [ok |-> TRUE, val |-> content.value]
    [] content.c = "invalid" -> [ok |-> FALSE]
    [] OTHER -> [ok |-> TRUE, val |-> JDict(EmptyMap)]

\* the same with "vulnerabilities" looked up before "findings"
FindingsDataVulnerabilitiesFirst(result) ==
  IF result.t = "list" THEN result
  ELSE IF result.t = "dict"
  THEN IF "vulnerabilities" \in DOMAIN result.m THEN result.m["vulnerabilities"]
       ELSE IF "findings" \in DOMAIN result.m THEN result.m["findings"]
       ELSE IF "title" \in DOMAIN result.m THEN JList(<<result>>)
       ELSE JList(<<>>)
  ELSE JList(<<>>)

\* "Handle different response formats"
FindingsData(result) ==
  IF result.t = "list" THEN result
  ELSE IF result.t = "dict"
  THEN IF "findings" \in DOMAIN result.m THEN result.m["findings"]
       ELSE IF "vulnerabilities" \in DOMAIN result.m THEN result.m["vulnerabilities"]
       ELSE IF "title" \in DOMAIN result.m THEN JList(<<result>>)
       ELSE JList(<<>>)
  ELSE JList(<<>>)

\* one pass of the loop body over the elements of a list
RECURSIVE BuildFromList(_, _)
BuildFromList(items, file) ==
  IF items = <<>> THEN [ok |-> TRUE, val |-> <<>>]
  ELSE LET f_data == Head(items)
       IN IF f_data.t # "dict" THEN [ok |-> FALSE]
          ELSE IF PostInitRaises(file, Get(f_data.m, "title", JStr("Unknown")))
          THEN [ok |-> FALSE]
          ELSE LET rest == BuildFromList(Tail(items), file)
               IN IF rest.ok
                  THEN [ok |-> TRUE, val |-> <<Finding(f_data.m, file)>> \o rest.val]
                  ELSE [ok |-> FALSE]

\* `for f_data in findings_data`: a list yields its elements; a dict yields
\* its keys and a str its characters, which are str and have no .get; any
\* other value is not iterable.  ok = FALSE: the loop raised
BuildFindings(findings_data, file) ==
  CASE findings_data.t = "list" -> BuildFromList(findings_data.items, file)
    [] findings_data.t = "dict" ->
         IF DOMAIN findings_data.m = {} THEN [ok |-> TRUE, val |-> <<>>]
         ELSE [ok |-> FALSE]
    [] findings_data.t = "str" ->
         IF findings_data.s = "" THEN [ok |-> TRUE, val |-> <<>>]
         ELSE [ok |-> FALSE]
    [] OTHER -> [ok |-> FALSE]

\* the except clause reached with these counters assigned so far
ExceptReturnKeepsTokens(input_tokens, output_tokens) ==
  [findings |-> <<>>, input_tokens |-> input_tokens, output_tokens |-> output_tokens]

ExceptReturn(input_tokens, output_tokens) ==
  [findings |-> <<>>, input_tokens |-> 0, output_tokens |-> 0]

\* some statement of the try block raises for this reply
AnalyzeRaises(file, reply) ==
  \/ reply.kind = "raise"
  \/ /\ reply.kind = "ok"
     /\ LET parsed == ParseResult(reply.content)
        IN \/ ~parsed.ok
           \/ ~BuildFindings(FindingsData(parsed.val), file).ok

analyze_file(file, reply) ==
  IF reply.kind = "raise" THEN ExceptReturn(0, 0)
  ELSE LET tok == UsageTokens(reply.usage)
           parsed == ParseResult(reply.content)
       IN IF ~parsed.ok THEN ExceptReturn(tok.input_tokens, tok.output_tokens)
          ELSE LET built == BuildFindings(FindingsData(parsed.val), file)
               IN IF ~built.ok THEN ExceptReturn(tok.input_tokens, tok.output_tokens)
                  ELSE [findings |-> built.val,
                        input_tokens |-> tok.input_tokens,
                        output_tokens |-> tok.output_tokens]

(***************************************************************************)
(* The source directory.  A path is the sequence of its components, kept   *)
(* as pathlib keeps them: "." is dropped, ".." is not collapsed.           *)
(***************************************************************************)
\* what the directory tree holds at each resolved location below source_dir
Tree ==
  (<<"a.sol">> :> "file") @@ (<<"a.sol:b.sol">> :> "file") @@
  (<<"sub">> :> "dir") @@ (<<"sub", "Test_c.sol">> :> "file")

IsDirAt(at) == at = <<>> \/ (at \in DOMAIN Tree /\ Tree[at] = "dir")

\* the location a path names once the operating system resolves it
RECURSIVE Walk(_, _)
Walk(at, rest) ==
  IF rest = <<>> THEN [ok |-> TRUE, at |-> at]
  ELSE IF ~IsDirAt(at) THEN [ok |-> FALSE]
  ELSE IF Head(rest) = ".."
  THEN IF at = <<>> THEN [ok |-> FALSE]
       ELSE Walk(SubSeq(at, 1, Len(at) - 1), Tail(rest))
  ELSE IF (at \o <<Head(rest)>>) \in DOMAIN Tree
  THEN Walk(at \o <<Head(rest)>>, Tail(rest))
  ELSE [ok |-> FALSE]

Resolve(path) == Walk(<<>>, path)

exists(path) == Resolve(path).ok

is_dir(path) == Resolve(path).ok /\ IsDirAt(Resolve(path).at)

is_file(path) ==
  /\ Resolve(path).ok
  /\ Resolve(path).at \in DOMAIN Tree
  /\ Tree[Resolve(path).at] = "file"

\* os.listdir of a directory path
Listdir(path) ==
  {loc[Len(loc)] : loc \in {l \in DOMAIN Tree :
      Len(l) = Len(Resolve(path).at) + 1
      /\ SubSeq(l, 1, Len(l) - 1) = Resolve(path).at}}

\* Path.name
Name(path) == path[Len(path)]

\* Path.suffix of the names of the tree
NameSuffix(name) == IF name = "sub" THEN "" ELSE ".sol"

\* 'test' in name.lower(), for the names of the tree
NameContainsTest(name) == name = "Test_c.sol"

Wildcards == {"*", "*.sol", "*.vy", "*.cairo", "*.rs", "*.move"}

\* fnmatch of one name against one wildcard component
Fnmatch(name, comp) == comp = "*" \/ comp = "*" \o NameSuffix(name)

\* pathlib's parse of a relative path string: "." components vanish
PurePath(comps) == SelectSeq(comps, LAMBDA c : c # ".")

\* the directories "**" walks: base itself and every directory below it
RECURSIVE Descend(_)
Descend(base) ==
  {base} \cup UNION {Descend(base \o <<n>>) :
                       n \in {m \in Listdir(base) : is_dir(base \o <<m>>)}}

\* Path.glob: the selectors of the pattern's components applied in turn
RECURSIVE GlobFrom(_, _)
GlobFrom(base, comps) ==
  IF comps = <<>> THEN {base}
  ELSE IF ~is_dir(base) THEN {}
  ELSE LET c == Head(comps)
           rest == Tail(comps)
       IN IF c = "**" THEN UNION {GlobFrom(d, rest) : d \in Descend(base)}
          ELSE IF c = ".." THEN GlobFrom(base \o <<"..">>, rest)
          ELSE IF c \in Wildcards
          THEN UNION {GlobFrom(base \o <<n>>, rest) :
                        n \in {m \in Listdir(base) : Fnmatch(m, c)}}
          ELSE IF exists(base \o <<c>>) THEN GlobFrom(base \o <<c>>, rest)
          ELSE {}

glob(pat) == GlobFrom(<<>>, PurePath(pat))

\* pattern[2:] if pattern.startswith('./') else pattern
StripDotSlash(pattern) ==
  IF Len(pattern) >= 2 /\ Head(pattern) = "." THEN Tail(pattern) ELSE pattern

DefaultPatterns ==
  <<(<<"**", "*.sol">>), (<<"**", "*.vy">>), (<<"**", "*.cairo">>),
    (<<"**", "*.rs">>), (<<"**", "*.move">>)>>

\* the files list after the pattern loop; it is made a set right after, so
\* it is collected as one (`direct not in files` then adds nothing new)
RECURSIVE CollectGiven(_)
CollectGiven(patterns) ==
  IF patterns = <<>> THEN {}
  ELSE LET pat == StripDotSlash(Head(patterns))
           direct == PurePath(pat)
       IN glob(pat)
            \cup (IF is_file(direct) THEN {direct} ELSE {})
            \cup CollectGiven(Tail(patterns))

RECURSIVE CollectDefault(_)
CollectDefault(patterns) ==
  IF patterns = <<>> THEN {}
  ELSE glob(Head(patterns)) \cup CollectDefault(Tail(patterns))

\* set(files): Path equality and hash compare the components as written
SetOfPaths(paths) == paths

\* "Remove duplicates and filter"
SelectFiles(patterns) ==
  LET found == IF patterns # <<>> THEN CollectGiven(patterns)
               ELSE CollectDefault(DefaultPatterns)
  IN {f \in SetOfPaths(found) : is_file(f) /\ ~NameContainsTest(Name(f))}

\* every order a list made from a set can have
Orders(S) ==
  {o \in [1..Cardinality(S) -> S] : \A i, j \in 1..Cardinality(S) : o[i] = o[j] => i = j}

(***************************************************************************)
(* Inputs of the specifications.                                           *)
(***************************************************************************)
\* sequences over S of length at most n
SeqsUpTo(S, n) == UNION {[1..k -> S] : k \in 0..n}

\* file_patterns arguments of the selector specification
SelectorPatterns ==
  {<<"a.sol">>, <<".", "a.sol">>, <<"sub", "..", "a.sol">>, <<"*.sol">>,
   <<"**", "*.sol">>, <<"sub">>, <<"sub", "*">>, <<"missing.sol">>,
   <<"a.sol:b.sol">>}

\* file_patterns arguments of analyze_project runs
ProjectPatterns == {<<"*.sol">>, <<"sub", "..", "a.sol">>, <<"missing.sol">>}

RaiseReply == [kind |-> "raise"]
OkReply(usage, content) == [kind |-> "ok", usage |-> usage, content |-> content]

NoUsage == [present |-> FALSE]
UsageOf(attrs) == [present |-> TRUE, attrs |-> attrs]
Usage21 == UsageOf([prompt_tokens |-> JNum(2), completion_tokens |-> JNum(1)])
Usage1None == UsageOf([prompt_tokens |-> JNum(1), completion_tokens |-> JNull])

\* message contents: no choice at all, content None, "", text that is not
\* JSON, text that is the JSON encoding of a value
NoChoices == [c |-> "nochoices"]
ContentNone == [c |-> "none"]
ContentEmpty == [c |-> "empty"]
ContentInvalid == [c |-> "invalid"]
ContentJson(v) == [c |-> "json", value |-> v]

Cand(m) == JDict(m)

\* replies of the completion service during analyze_project runs
ProjectReplies ==
  {RaiseReply,
   OkReply(Usage21, ContentInvalid),
   OkReply(Usage21, ContentJson(JDict([findings |-> JList(<<
      Cand([title |-> JStr("R"), description |-> JStr("d1"),
            severity |-> JStr("high")])>>)]))),
   OkReply(NoUsage, ContentJson(JDict([findings |-> JList(<<
      Cand([title |-> JStr("R"), description |-> JStr("d2"),
            severity |-> JStr("info")]),
      Cand([title |-> JStr("b.sol:R")])>>)]))),
   OkReply(Usage1None, ContentJson(JList(<<
      Cand([title |-> JStr("R")]), JStr("oops")>>))),
   OkReply(Usage1None, ContentEmpty),
   OkReply(Usage21, ContentJson(JDict([vulnerabilities |-> JList(<<
      Cand([title |-> JStr("R"), description |-> JStr("d2")]),
      Cand([title |-> JStr("R"), description |-> JStr("d1")])>>)])))}

(***************************************************************************)
(* State.                                                                  *)
(***************************************************************************)
VARIABLES
  pc,                   \* where the run is
  file_patterns,        \* analyze_project's argument
  files,                \* the selected files, in loop order
  pos,                  \* index in files of the next file of the loop
  all_findings,
  files_analyzed,
  files_skipped,
  total_input_tokens,
  total_output_tokens,
  result,               \* the AnalysisResult returned
  log,                  \* history: one entry per loop iteration
  an_file,              \* analyze_file specification: its arguments
  an_reply,
  an_ret                \* and what it returned

vars == <<pc, file_patterns, files, pos, all_findings, files_analyzed,
          files_skipped, total_input_tokens, total_output_tokens, result,
          log, an_file, an_reply, an_ret>>

loopVars == <<all_findings, files_analyzed, files_skipped,
              total_input_tokens, total_output_tokens>>
analyzeVars == <<an_file, an_reply, an_ret>>

NoResult == [returned |-> FALSE]
NoReply == [kind |-> "none"]
NoRet == [findings |-> <<>>, input_tokens |-> 0, output_tokens |-> 0]

project_name == "proj"

(***************************************************************************)
(* analyze_project.                                                        *)
(***************************************************************************)
\* the dict unique_findings as the sequence of its values in insertion order
RECURSIVE DedupFold(_, _)
DedupFold(unique, rest) ==
  IF rest = <<>> THEN unique
  ELSE IF \E i \in 1..Len(unique) : unique[i].id = Head(rest).id
  THEN DedupFold(unique, Tail(rest))
  ELSE DedupFold(Append(unique, Head(rest)), Tail(rest))

\* a fold in which a later finding overwrites the entry of its id
RECURSIVE LastWinsFold(_, _)
LastWinsFold(unique, rest) ==
  IF rest = <<>> THEN unique
  ELSE IF \E i \in 1..Len(unique) : unique[i].id = Head(rest).id
  THEN LastWinsFold([i \in 1..Len(unique) |->
                       IF unique[i].id = Head(rest).id THEN Head(rest)
                       ELSE unique[i]], Tail(rest))
  ELSE LastWinsFold(Append(unique, Head(rest)), Tail(rest))

UniqueFindingsLastWins(findings) == LastWinsFold(<<>>, findings)

UniqueFindingsNoDedup(findings) == findings

\* "Deduplicate findings"
UniqueFindings(findings) == DedupFold(<<>>, findings)

MakeResultTotalIsInput(unique_findings, analyzed, skipped, tin, tout) ==
  [returned |-> TRUE, project |-> project_name, timestamp |-> "now",
   files_analyzed |-> analyzed, files_skipped |-> skipped,
   total_findings |-> Len(unique_findings), findings |-> unique_findings,
   token_usage |-> [input_tokens |-> tin, output_tokens |-> tout,
                    total_tokens |-> tin]]

\* AnalysisResult(...) of the normal path
MakeResult(unique_findings, analyzed, skipped, tin, tout) ==
  [returned |-> TRUE, project |-> project_name, timestamp |-> "now",
   files_analyzed |-> analyzed, files_skipped |-> skipped,
   total_findings |-> Len(unique_findings), findings |-> unique_findings,
   token_usage |-> [input_tokens |-> tin, output_tokens |-> tout,
                    total_tokens |-> tin + tout]]

\* AnalysisResult(...) of the empty-selection path
EmptyResult ==
  [returned |-> TRUE, project |-> project_name, timestamp |-> "now",
   files_analyzed |-> 0, files_skipped |-> 0,
   total_findings |-> 0, findings |-> <<>>,
   token_usage |-> [input_tokens |-> 0, output_tokens |-> 0, total_tokens |-> 0]]

LogEntry(path, read, invoked, reply, ret) ==
  [path |-> path, read |-> read, invoked |-> invoked, reply |-> reply, ret |-> ret]

\* file selection, then the early return or the loop's initialisation
SelectStep ==
  /\ pc = "select"
  /\ \E order \in Orders(SelectFiles(file_patterns)) :
       /\ files' = order
       /\ IF order = <<>>
          THEN /\ result' = EmptyResult
               /\ pc' = "returned"
          ELSE /\ result' = result
               /\ pc' = "loop"
  /\ pos' = 1
  /\ all_findings' = <<>>
  /\ files_analyzed' = 0
  /\ files_skipped' = 0
  /\ total_input_tokens' = 0
  /\ total_output_tokens' = 0
  /\ UNCHANGED <<file_patterns, log, analyzeVars>>

InLoop == pc = "loop" /\ pos <= Len(files)

\* open() or read() raises: the except clause of the loop body
ReadFails ==
  /\ InLoop
  /\ files_skipped' = files_skipped + 1
  /\ pos' = pos + 1
  /\ log' = Append(log, LogEntry(files[pos], "error", FALSE, NoReply, NoRet))
  /\ UNCHANGED <<pc, file_patterns, files, result, analyzeVars,
                 all_findings, files_analyzed, total_input_tokens,
                 total_output_tokens>>

SkipBlankUncounted ==
  /\ InLoop
  /\ pos' = pos + 1
  /\ log' = Append(log, LogEntry(files[pos], "blank", FALSE, NoReply, NoRet))
  /\ UNCHANGED <<pc, file_patterns, files, result, analyzeVars, loopVars>>

\* the content is empty or whitespace only
SkipBlank ==
  /\ InLoop
  /\ files_skipped' = files_skipped + 1
  /\ pos' = pos + 1
  /\ log' = Append(log, LogEntry(files[pos], "blank", FALSE, NoReply, NoRet))
  /\ UNCHANGED <<pc, file_patterns, files, result, analyzeVars,
                 all_findings, files_analyzed, total_input_tokens,
                 total_output_tokens>>

AccumulateFruitlessAsSkipped(ret) ==
  /\ all_findings' = all_findings \o ret.findings
  /\ IF ret.findings = <<>> /\ ret.input_tokens + ret.output_tokens = 0
     THEN files_skipped' = files_skipped + 1 /\ files_analyzed' = files_analyzed
     ELSE files_analyzed' = files_analyzed + 1 /\ files_skipped' = files_skipped
  /\ total_input_tokens' = total_input_tokens + ret.input_tokens
  /\ total_output_tokens' = total_output_tokens + ret.output_tokens

\* what the loop body does with analyze_file's return value
Accumulate(ret) ==
  /\ all_findings' = all_findings \o ret.findings
  /\ files_analyzed' = files_analyzed + 1
  /\ total_input_tokens' = total_input_tokens + ret.input_tokens
  /\ total_output_tokens' = total_output_tokens + ret.output_tokens
  /\ files_skipped' = files_skipped

\* the content is not blank: analyze_file is called with the file's name
AnalyzeStep(reply) ==
  /\ InLoop
  /\ LET ret == analyze_file(Name(files[pos]), reply)
     IN /\ Accumulate(ret)
        /\ log' = Append(log, LogEntry(files[pos], "text", TRUE, reply, ret))
  /\ pos' = pos + 1
  /\ UNCHANGED <<pc, file_patterns, files, result, analyzeVars>>

\* after the loop: deduplicate, build the result, return it
BuildResult ==
  /\ pc = "loop"
  /\ pos > Len(files)
  /\ result' = MakeResult(UniqueFindings(all_findings), files_analyzed,
                          files_skipped, total_input_tokens, total_output_tokens)
  /\ pc' = "returned"
  /\ UNCHANGED <<file_patterns, files, pos, log, loopVars, analyzeVars>>

ProjectInit(patterns) ==
  /\ pc = "select"
  /\ file_patterns \in SeqsUpTo(patterns, MaxPatterns)
  /\ files = <<>>
  /\ pos = 1
  /\ all_findings = <<>>
  /\ files_analyzed = 0
  /\ files_skipped = 0
  /\ total_input_tokens = 0
  /\ total_output_tokens = 0
  /\ result = NoResult
  /\ log = <<>>
  /\ an_file = "a.sol"
  /\ an_reply = NoReply
  /\ an_ret = NoRet

Init == ProjectInit(ProjectPatterns)

Next ==
  \/ SelectStep
  \/ ReadFails
  \/ SkipBlank
  \/ \E reply \in ProjectReplies : AnalyzeStep(reply)
  \/ BuildResult

Spec == Init /\ [][Next]_vars

\* the loop is sequential and each request returns or raises, so a run that
\* can take a step takes one
FairSpec == Spec /\ WF_vars(Next)

(***************************************************************************)
(* The File Selector alone, over a wider set of file_patterns arguments.   *)
(***************************************************************************)
SelectInit == ProjectInit(SelectorPatterns)

SelectNext == SelectStep

SpecSelect == SelectInit /\ [][SelectNext]_vars

(***************************************************************************)
(* analyze_file alone, over a wider set of replies.                        *)
(***************************************************************************)
TitleValues == {JStr("R"), JNum(5), JStr(LoneSurrogate)}
SeverityValues == {JStr("high"), JStr("info")}
CandKeys == {"title", "severity"}
CandValues(k) == IF k = "title" THEN TitleValues ELSE SeverityValues

\* every mapping over a subset of CandKeys
CandMaps ==
  UNION {{m \in [K -> TitleValues \cup SeverityValues] :
            \A k \in K : m[k] \in CandValues(k)} : K \in SUBSET CandKeys}

\* elements a model may put in a candidate list
Elements == {JDict(m) : m \in CandMaps} \cup {JStr("oops"), JNull}

CandLists == {JList(xs) : xs \in SeqsUpTo(Elements, MaxCands)}

\* values a model may put under "findings" or "vulnerabilities"
Containers ==
  CandLists \cup {JNull, JNum(1), JStr(""), JStr("ab"), JDict(EmptyMap),
                  JDict([title |-> JStr("R")])}

OneVuln == JList(<<JDict([title |-> JStr("V")])>>)

ResponseValues ==
  CandLists
    \cup {JDict([findings |-> c]) : c \in Containers}
    \cup {JDict([findings |-> c, vulnerabilities |-> OneVuln]) : c \in Containers}
    \cup {JDict([findings |-> c, title |-> JStr("T")]) : c \in Containers}
    \cup {JDict([vulnerabilities |-> c]) : c \in Containers}
    \cup {JDict([vulnerabilities |-> c, title |-> JStr("T")]) : c \in Containers}
    \cup {JDict(m) : m \in CandMaps}
    \cup {JNull, JNum(5), JStr("text")}

AnalyzeReplies ==
  {RaiseReply}
    \cup {OkReply(u, c) : u \in {NoUsage, Usage21},
                          c \in {NoChoices, ContentNone, ContentEmpty, ContentInvalid}}
    \cup {OkReply(u, ContentJson(v)) : u \in {NoUsage, Usage21}, v \in ResponseValues}

AnalyzeFiles == {"a.sol", "b.sol"}

AnalyzeInit ==
  /\ pc = "analyze"
  /\ an_file \in AnalyzeFiles
  /\ an_reply \in AnalyzeReplies
  /\ an_ret = NoRet
  /\ file_patterns = <<>>
  /\ files = <<>>
  /\ pos = 1
  /\ all_findings = <<>>
  /\ files_analyzed = 0
  /\ files_skipped = 0
  /\ total_input_tokens = 0
  /\ total_output_tokens = 0
  /\ result = NoResult
  /\ log = <<>>

\* one call of analyze_file
AnalyzeCall ==
  /\ pc = "analyze"
  /\ an_ret' = analyze_file(an_file, an_reply)
  /\ pc' = "analyzed"
  /\ UNCHANGED <<file_patterns, files, pos, result, log, loopVars, an_file, an_reply>>

AnalyzeNext == AnalyzeCall

SpecAnalyze == AnalyzeInit /\ [][AnalyzeNext]_vars

(***************************************************************************)
(* Properties.                                                             *)
(***************************************************************************)
Returned == pc = "returned" /\ result.returned

Invoked == {i \in DOMAIN log : log[i].invoked}
NotInvoked == {i \in DOMAIN log : ~log[i].invoked}

\* the iteration raised inside analyze_file's try block
RaisedAt(i) == log[i].invoked /\ AnalyzeRaises(Name(log[i].path), log[i].reply)

RECURSIVE SumInput(_)
SumInput(entries) ==
  IF entries = <<>> THEN 0
  ELSE (IF Head(entries).invoked THEN Head(entries).ret.input_tokens ELSE 0)
         + SumInput(Tail(entries))

RECURSIVE SumOutput(_)
SumOutput(entries) ==
  IF entries = <<>> THEN 0
  ELSE (IF Head(entries).invoked THEN Head(entries).ret.output_tokens ELSE 0)
         + SumOutput(Tail(entries))

\* C1: every returned AnalysisResult has total_findings = len(findings) and
\* no two of its findings share an id.
C1_CountAndUniqueIds ==
  Returned =>
    /\ result.total_findings = Len(result.findings)
    /\ \A i, j \in DOMAIN result.findings :
         result.findings[i].id = result.findings[j].id => i = j

C1_Witness ==
  /\ Returned
  /\ Len(result.findings) >= 2
  /\ Len(all_findings) > Len(result.findings)

\* C2: a file is counted in files_skipped exactly when analyze_file was not
\* invoked for it (blank content or a failed read) and in files_analyzed
\* exactly when it was invoked, whatever the request did.
C2_SkippedIffNotInvoked ==
  /\ files_skipped = Cardinality(NotInvoked)
  /\ files_analyzed = Cardinality(Invoked)
  /\ \A i \in DOMAIN log : log[i].invoked <=> log[i].read = "text"
  /\ Returned => /\ result.files_skipped = Cardinality(NotInvoked)
                 /\ result.files_analyzed = Cardinality(Invoked)

C2_Witness ==
  /\ Returned
  /\ \E i, j, k \in DOMAIN log :
       /\ log[i].read = "blank"
       /\ log[j].read = "error"
       /\ log[k].invoked /\ log[k].reply = RaiseReply
  /\ result.files_skipped = 2
  /\ result.files_analyzed = 1

\* C3: every (file, title) pair accumulated during a run is still present
\* in the returned findings: two findings whose pairs differ are not merged.
C3_DistinctPairsRetained ==
  Returned =>
    \A i \in DOMAIN all_findings :
      \E k \in DOMAIN result.findings :
        /\ result.findings[k].file = all_findings[i].file
        /\ result.findings[k].title = all_findings[i].title

\* C4: every finding of a returned AnalysisResult has a severity among
\* critical, high, medium, low.
C4_SeverityInEnum ==
  Returned =>
    \A k \in DOMAIN result.findings :
      result.findings[k].severity \in {JStr(sev) : sev \in Severity}

\* the candidates of a parsed response value
Candidates(v) ==
  LET under(c) == IF c.t = "list" THEN c.items ELSE <<>>
  IN IF v.t = "list" THEN v.items
     ELSE IF v.t = "dict"
     THEN IF "findings" \in DOMAIN v.m THEN under(v.m["findings"])
          ELSE IF "vulnerabilities" \in DOMAIN v.m THEN under(v.m["vulnerabilities"])
          ELSE IF "title" \in DOMAIN v.m THEN <<v>>
          ELSE <<>>
     ELSE <<>>

\* the fields of a candidate, none for one that is not a mapping
FieldsOf(cand) == IF cand.t = "dict" THEN cand.m ELSE EmptyMap

\* the finding carries the candidate's fields, defaults where it has none
BuiltFrom(finding, cand) ==
  LET m == FieldsOf(cand)
  IN /\ finding.title = (IF "title" \in DOMAIN m THEN m["title"] ELSE JStr("Unknown"))
     /\ finding.severity =
          (IF "severity" \in DOMAIN m THEN m["severity"] ELSE JStr("medium"))
     /\ finding.description = JStr("")
     /\ finding.vulnerability_type = JStr("other")
     /\ finding.location = JStr("unknown")
     /\ finding.file = an_file
     /\ finding.reported_by_model = model_id

Parsed == pc = "analyzed" /\ an_reply.kind = "ok" /\ ParseResult(an_reply.content).ok

ParsedValue == ParseResult(an_reply.content).val

\* C5 as stated: for every parsed response value analyze_file returns
\* exactly one Finding per candidate, in candidate order, whatever the
\* candidate is.
C5_OneFindingPerCandidate ==
  Parsed =>
    LET cands == Candidates(ParsedValue)
    IN /\ Len(an_ret.findings) = Len(cands)
       /\ \A i \in DOMAIN cands : BuiltFrom(an_ret.findings[i], cands[i])

\* the candidate is a mapping whose id source can be encoded
WellFormed(cand) ==
  /\ cand.t = "dict"
  /\ Utf8Encodable(an_file)
  /\ Utf8Encodable(PyStr(Get(cand.m, "title", JStr("Unknown"))))

\* C5 amended: when every candidate is a mapping whose id source can be
\* encoded, analyze_file returns one Finding per candidate in candidate
\* order, missing fields taking the defaults; when some candidate is not,
\* it returns no finding at all.
C5_OneFindingPerWellFormedCandidate ==
  Parsed =>
    LET cands == Candidates(ParsedValue)
    IN IF \A i \in DOMAIN cands : WellFormed(cands[i])
       THEN /\ Len(an_ret.findings) = Len(cands)
            /\ \A i \in DOMAIN cands : BuiltFrom(an_ret.findings[i], cands[i])
       ELSE an_ret.findings = <<>>

C5_Witness ==
  /\ Parsed
  /\ ParsedValue.t = "dict"
  /\ {"findings", "vulnerabilities"} \subseteq DOMAIN ParsedValue.m
  /\ Len(an_ret.findings) = 2
  /\ an_ret.findings[1].title = JStr("Unknown")
  /\ an_ret.findings[2].title = JStr("R")
  /\ an_ret.findings[2].severity = JStr("medium")

\* C6: after selection no two entries of files name the same file.
C6_NoFileSelectedTwice ==
  pc # "select" =>
    \A i, j \in DOMAIN files :
      Resolve(files[i]) = Resolve(files[j]) => i = j

\* C7: an iteration in which analyze_file's try block raises gets
\* ([], 0, 0) back, the run goes on, and the accumulated findings and token
\* counters stay as they were.
C7_RaiseIsAbsorbed ==
  [][(/\ Len(log') = Len(log) + 1
      /\ log'[Len(log')].invoked
      /\ AnalyzeRaises(Name(log'[Len(log')].path), log'[Len(log')].reply))
     => /\ log'[Len(log')].ret = NoRet
        /\ all_findings' = all_findings
        /\ total_input_tokens' = total_input_tokens
        /\ total_output_tokens' = total_output_tokens
        /\ files_skipped' = files_skipped
        /\ files_analyzed' = files_analyzed + 1
        /\ pc' = "loop"]_vars

C7_Witness ==
  /\ Returned
  /\ result.findings # <<>>
  /\ result.token_usage.total_tokens = 3
  /\ \E i, j, k \in DOMAIN log :
       /\ RaisedAt(i) /\ log[i].reply = OkReply(Usage21, ContentInvalid)
       /\ RaisedAt(j) /\ log[j].reply.kind = "ok"
       /\ log[j].reply.content.c = "json"
       /\ log[k].invoked /\ ~RaisedAt(k) /\ log[k].ret.input_tokens = 2

C9_FirstOccurrenceWins ==
  Returned =>
    LET a == all_findings
        r == result.findings
        first(id) == CHOOSE i \in DOMAIN a :
                       a[i].id = id /\ \A j \in 1..(i - 1) : a[j].id # id
    IN /\ \A i \in DOMAIN a : \E k \in DOMAIN r : r[k].id = a[i].id
       /\ \A k \in DOMAIN r :
            /\ \E i \in DOMAIN a : a[i].id = r[k].id
            /\ r[k] = a[first(r[k].id)]
       /\ \A k1, k2 \in DOMAIN r :
            k1 < k2 => first(r[k1].id) < first(r[k2].id)
       /\ UniqueFindings(r) = r

C9_Witness ==
  /\ Returned
  /\ \E i, j \in DOMAIN all_findings :
       /\ i < j
       /\ all_findings[i].id = all_findings[j].id
       /\ all_findings[i].description # all_findings[j].description
       /\ all_findings[i].severity # all_findings[j].severity
  /\ Len(result.findings) >= 2

\* C10: the returned token counts are the sums of what analyze_file
\* returned for the files it was invoked for, total_tokens is their sum,
\* and all three are 0 when no file was selected.
C10_TokenSums ==
  Returned =>
    /\ result.token_usage.input_tokens = SumInput(log)
    /\ result.token_usage.output_tokens = SumOutput(log)
    /\ result.token_usage.total_tokens =
         result.token_usage.input_tokens + result.token_usage.output_tokens
    /\ files = <<>> => result.token_usage.total_tokens = 0

C10_Witness ==
  /\ Returned
  /\ result.token_usage.input_tokens = 3
  /\ result.token_usage.output_tokens = 1
  /\ result.token_usage.total_tokens = 4
  /\ NotInvoked # {}

====
